---- MODULE Spec2Model ----
(***************************************************************************)
(* A model of bank.c: the command loop of main over the linked list of     *)
(* live accounts (accountsHead), the linked list of deleted account        *)
(* numbers (deletedAccountNumbersHead) and the fresh-number counter        *)
(* (globalNextAccountNumber).                                              *)
(*                                                                         *)
(* A linked list is a sequence of its nodes' data, head first.  A name is  *)
(* the sequence of its character codes (the bytes before the NUL).  An     *)
(* amount is an integer number of rupees: such values, far below 2^24, are *)
(* exact in the float the program keeps them in, and so are their sums and *)
(* differences.                                                            *)
(*                                                                         *)
(* Spec is the command loop with up to MaxFresh account numbers, the       *)
(* amount 100 and a history of the numbers deleted and recycled;           *)
(* SpecLedger is the same loop with up to MaxLedgerFresh account numbers   *)
(* and the amounts -50, 50 and 100.                                        *)
(***************************************************************************)
EXTENDS Integers, Sequences, FiniteSets, TLC

\* ---------------------------------------------------------------- bounds

\* Spec mints at most MaxFresh fresh numbers: 100 .. 100 + MaxFresh - 1.
MaxFresh == 2
\* SpecLedger mints at most MaxLedgerFresh fresh numbers.
MaxLedgerFresh == 1
\* A command whose resulting balance would exceed MaxBalance (under Spec) or
\* MaxLedgerBalance (under SpecLedger) is not issued.
MaxBalance == 100
MaxLedgerBalance == 150
\* A command whose resulting balance would lie below -MaxDebt is not issued.
MaxDebt == 50

\* ------------------------------------------------------ program constants

SAVINGS == 0
CURRENT == 1
\* The initial value of globalNextAccountNumber.
FirstAccountNumber == 100
\* The balance a savings account keeps after a withdrawal.
SavingsMinimum == 100
\* The balance a current account keeps after a withdrawal.
CurrentMinimum == 0
\* The balance below which LOWBALANCE lists an account.
LowBalanceLimit == 100
\* deleteAccount's *deletedAccountNumber when nothing was deleted.
NoneDeleted == -1

\* ----------------------------------------------------------------- inputs

\* "A" and "a": two names that differ in case only.
NameInputs == { <<65>>, <<97>> }
\* The account type token as typed.
TypeInputs == { "savings", "current", "Savings" }
\* The amounts typed under Spec, and those typed under SpecLedger.
AmountInputs == { 100 }
LedgerAmountInputs == { -50, 0, 50, 100 }
\* The opening amounts next to the low-balance limit: one below it, and it.
LowAmountInputs == { LowBalanceLimit - 1, LowBalanceLimit }
CodeInputs == { 0, 1, 2 }
\* The account numbers typed: those a bound of maxFresh can mint, and the next.
NumberInputs(maxFresh) ==
    FirstAccountNumber .. (FirstAccountNumber + maxFresh)
\* Whether a call of malloc or strdup returns a block.
AllocResults == BOOLEAN
\* What createAccount's malloc and strdup return: strdup is called only when
\* malloc has returned a block.
CreateAllocResults == { << TRUE, TRUE >>, << TRUE, FALSE >>, << FALSE, FALSE >> }

InRange(balance, maxBalance) == balance >= -MaxDebt /\ balance <= maxBalance

\* ------------------------------------------------------------------ state

VARIABLES
    globalNextAccountNumber,    \* int globalNextAccountNumber
    accountsHead,               \* main's accountsHead: the list of AccountNode
    deletedAccountNumbersHead,  \* main's deletedAccountNumbersHead
    out,                        \* what the last command printed
    running,                    \* main's while (1) has not met EXIT
    recycling                   \* history: the deletions and creations seen
                                \* since the deleted list was last empty

vars == << globalNextAccountNumber, accountsHead, deletedAccountNumbersHead,
           out, running, recycling >>

\* An AccountNode's data.
AccountNode(number, name, type, amount) ==
    [ AccountNumber |-> number, Name |-> name, accountType |-> type,
      Amount |-> amount ]

\* The output of one command: the message, the account number it names (0 when
\* it names none), the table rows, and whether perror wrote to stderr.
Output(msg, num, rows, err) ==
    [ msg |-> msg, num |-> num, rows |-> rows, err |-> err ]

\* ------------------------------------------------------------ the C library

\* strcasecmp for strcmp: the letters are compared without their case.
RECURSIVE strcmp_IgnoreCase(_, _)
strcmp_IgnoreCase(s1, s2) ==
    LET Lower(c) == IF c >= 65 /\ c <= 90 THEN c + 32 ELSE c
    IN  IF s1 = << >> /\ s2 = << >> THEN 0
        ELSE IF s1 = << >> THEN -1
        ELSE IF s2 = << >> THEN 1
        ELSE IF Lower(Head(s1)) < Lower(Head(s2)) THEN -1
        ELSE IF Lower(Head(s1)) > Lower(Head(s2)) THEN 1
        ELSE strcmp_IgnoreCase(Tail(s1), Tail(s2))

RECURSIVE strcmp(_, _)
strcmp(s1, s2) ==
    IF s1 = << >> /\ s2 = << >> THEN 0
    ELSE IF s1 = << >> THEN -1
    ELSE IF s2 = << >> THEN 1
    ELSE IF Head(s1) < Head(s2) THEN -1
    ELSE IF Head(s1) > Head(s2) THEN 1
    ELSE strcmp(Tail(s1), Tail(s2))

\* ------------------------------------------------- the deleted-number list

\* addDeletedAccountNum making the new node the head (return newNode) whether
\* or not the list is empty: the numbers it held are dropped.
addDeletedAccountNum_NewHeadAlone(list, accountNumToAdd, nodeOk) ==
    IF ~nodeOk THEN list
    ELSE << accountNumToAdd >>

addDeletedAccountNum(list, accountNumToAdd, nodeOk) ==
    IF ~nodeOk THEN list
    ELSE Append(list, accountNumToAdd)

\* The inner loop of a selection sort: the index of minNode when runner has
\* come to r, over the keys `keys`.
RECURSIVE MinNode(_, _, _)
MinNode(keys, minNode, r) ==
    IF r > Len(keys) THEN minNode
    ELSE MinNode(keys, IF keys[r] < keys[minNode] THEN r ELSE minNode, r + 1)

\* The list with the data of nodes i and j exchanged.
Swap(list, i, j) ==
    [ k \in 1 .. Len(list) |->
        IF k = i THEN list[j] ELSE IF k = j THEN list[i] ELSE list[k] ]

RECURSIVE SortDeletedFrom(_, _)
SortDeletedFrom(list, current) ==
    IF current > Len(list) THEN list
    ELSE LET minNode == MinNode(list, current, current + 1)
         IN  SortDeletedFrom(IF minNode # current
                                 THEN Swap(list, current, minNode)
                                 ELSE list,
                             current + 1)

\* sortDeletedAccountNumList without its loop: the list is returned as it is.
sortDeletedAccountNumList_Unsorted(list) == list

sortDeletedAccountNumList(list) ==
    IF Len(list) <= 1 THEN list
    ELSE SortDeletedFrom(list, 1)

\* ------------------------------------------------------- the account list

\* createAccount without *deletedNumsListHead = (*deletedNumsListHead)->next:
\* the recycled number stays in the deleted list.
createAccount_KeepsRecycled(deletedNums, list, accountType, Name, Amount, counter, nodeOk, nameOk) ==
    IF ~nodeOk \/ ~nameOk
    THEN [ list |-> list, deleted |-> deletedNums, counter |-> counter,
           out |-> Output("", 0, << >>, TRUE) ]
    ELSE LET recycle == deletedNums # << >>
             number == IF recycle THEN Head(deletedNums) ELSE counter
         IN  [ list |-> Append(list,
                               AccountNode(number, Name, accountType, Amount)),
               deleted |-> deletedNums,
               counter |-> IF recycle THEN counter ELSE counter + 1,
               out |-> Output("AccountCreated", number, << >>, FALSE) ]

\* createAccount with globalNextAccountNumber++ outside the else: a recycled
\* number costs a fresh one too.
createAccount_CounterAlways(deletedNums, list, accountType, Name, Amount, counter, nodeOk, nameOk) ==
    IF ~nodeOk \/ ~nameOk
    THEN [ list |-> list, deleted |-> deletedNums, counter |-> counter,
           out |-> Output("", 0, << >>, TRUE) ]
    ELSE LET recycle == deletedNums # << >>
             number == IF recycle THEN Head(deletedNums) ELSE counter
         IN  [ list |-> Append(list,
                               AccountNode(number, Name, accountType, Amount)),
               deleted |-> IF recycle THEN Tail(deletedNums) ELSE deletedNums,
               counter |-> counter + 1,
               out |-> Output("AccountCreated", number, << >>, FALSE) ]

\* createAccount taking its number before it allocates: a fresh number is
\* spent even when an allocation fails.
createAccount_MintsBeforeAllocating(deletedNums, list, accountType, Name, Amount, counter, nodeOk, nameOk) ==
    LET recycle == deletedNums # << >>
        number == IF recycle THEN Head(deletedNums) ELSE counter
    IN  IF ~nodeOk \/ ~nameOk
        THEN [ list |-> list, deleted |-> deletedNums,
               counter |-> IF recycle THEN counter ELSE counter + 1,
               out |-> Output("", 0, << >>, TRUE) ]
        ELSE [ list |-> Append(list,
                               AccountNode(number, Name, accountType, Amount)),
               deleted |-> IF recycle THEN Tail(deletedNums) ELSE deletedNums,
               counter |-> IF recycle THEN counter ELSE counter + 1,
               out |-> Output("AccountCreated", number, << >>, FALSE) ]

\* The result of createAccount: the account list it returns, the deleted list
\* it leaves behind *deletedNumsListHead, the counter, and what it printed.
createAccount(deletedNums, list, accountType, Name, Amount, counter, nodeOk, nameOk) ==
    IF ~nodeOk \/ ~nameOk
    THEN [ list |-> list, deleted |-> deletedNums, counter |-> counter,
           out |-> Output("", 0, << >>, TRUE) ]
    ELSE LET recycle == deletedNums # << >>
             number == IF recycle THEN Head(deletedNums) ELSE counter
         IN  [ list |-> Append(list,
                               AccountNode(number, Name, accountType, Amount)),
               deleted |-> IF recycle THEN Tail(deletedNums) ELSE deletedNums,
               counter |-> IF recycle THEN counter ELSE counter + 1,
               out |-> Output("AccountCreated", number, << >>, FALSE) ]

\* The comparison without current->accountType == accountType: the name alone
\* decides.
Matches_NameOnly(node, Name, accountType) == strcmp(node.Name, Name) = 0

\* Whether node `node` is the one deleteAccount and checkDuplicateAccount
\* look for.
Matches(node, Name, accountType) ==
    strcmp(node.Name, Name) = 0 /\ node.accountType = accountType

\* The index of the first node of `list` from `current` on that matches, or 0.
RECURSIVE FindAccount(_, _, _, _)
FindAccount(list, current, Name, accountType) ==
    IF current > Len(list) THEN 0
    ELSE IF Matches(list[current], Name, accountType) THEN current
    ELSE FindAccount(list, current + 1, Name, accountType)

\* The list without its node i.
Unlink(list, i) ==
    [ k \in 1 .. (Len(list) - 1) |-> IF k < i THEN list[k] ELSE list[k + 1] ]

\* deleteAccount capturing list->AccountNumber, the head's number, for
\* current->AccountNumber.
deleteAccount_HeadNumber(list, accountType, Name) ==
    IF list = << >>
    THEN [ list |-> << >>, deletedAccountNumber |-> NoneDeleted,
           msg |-> "NoAccountsToDelete" ]
    ELSE LET current == FindAccount(list, 1, Name, accountType)
         IN  IF current # 0
             THEN [ list |-> Unlink(list, current),
                    deletedAccountNumber |-> list[1].AccountNumber,
                    msg |-> "AccountDeleted" ]
             ELSE [ list |-> list, deletedAccountNumber |-> NoneDeleted,
                    msg |-> "DeleteNotFound" ]

\* The result of deleteAccount: the list it returns, *deletedAccountNumber and
\* the message.
deleteAccount(list, accountType, Name) ==
    IF list = << >>
    THEN [ list |-> << >>, deletedAccountNumber |-> NoneDeleted,
           msg |-> "NoAccountsToDelete" ]
    ELSE LET current == FindAccount(list, 1, Name, accountType)
         IN  IF current # 0
             THEN [ list |-> Unlink(list, current),
                    deletedAccountNumber |-> list[current].AccountNumber,
                    msg |-> "AccountDeleted" ]
             ELSE [ list |-> list, deletedAccountNumber |-> NoneDeleted,
                    msg |-> "DeleteNotFound" ]

\* checkDuplicateAccount returning 0 from inside its loop: only the head is
\* compared.
checkDuplicateAccount_HeadOnly(list, Name, accountType) ==
    IF list # << >> /\ Matches(list[1], Name, accountType) THEN 1 ELSE 0

checkDuplicateAccount(list, Name, accountType) ==
    IF FindAccount(list, 1, Name, accountType) # 0 THEN 1 ELSE 0

\* transaction's loop stopping at the last node (while (current->next != NULL))
\* and taking it for the account when none has the number.
FindNumber_TailWhenMissing(list, current, number) ==
    LET found == { k \in current .. Len(list) :
                     list[k].AccountNumber = number }
    IN  IF found # { } THEN CHOOSE k \in found : \A j \in found : k <= j
        ELSE Len(list)

\* The index of the first node of `list` from `current` on with the number, or 0.
RECURSIVE FindNumber(_, _, _)
FindNumber(list, current, number) ==
    IF current > Len(list) THEN 0
    ELSE IF list[current].AccountNumber = number THEN current
    ELSE FindNumber(list, current + 1, number)

\* The savings check written with <=: a withdrawal down to the minimum fails.
Withdrawal_MinimumExcluded(node, amount) ==
    IF node.accountType = SAVINGS /\ node.Amount - amount <= SavingsMinimum
    THEN [ msg |-> "InsufficientSavings", Amount |-> node.Amount ]
    ELSE IF node.accountType = CURRENT /\ node.Amount - amount < CurrentMinimum
    THEN [ msg |-> "InsufficientCurrent", Amount |-> node.Amount ]
    ELSE [ msg |-> "WithdrawalSuccessful", Amount |-> node.Amount - amount ]

\* The first check without its test of the account type: the savings minimum
\* holds for every account.
Withdrawal_MinimumForAll(node, amount) ==
    IF node.Amount - amount < SavingsMinimum
    THEN [ msg |-> "InsufficientSavings", Amount |-> node.Amount ]
    ELSE IF node.accountType = CURRENT /\ node.Amount - amount < CurrentMinimum
    THEN [ msg |-> "InsufficientCurrent", Amount |-> node.Amount ]
    ELSE [ msg |-> "WithdrawalSuccessful", Amount |-> node.Amount - amount ]

\* What a withdrawal of `amount` from node `node` does: the message and the
\* node's new Amount.
Withdrawal(node, amount) ==
    IF node.accountType = SAVINGS /\ node.Amount - amount < SavingsMinimum
    THEN [ msg |-> "InsufficientSavings", Amount |-> node.Amount ]
    ELSE IF node.accountType = CURRENT /\ node.Amount - amount < CurrentMinimum
    THEN [ msg |-> "InsufficientCurrent", Amount |-> node.Amount ]
    ELSE [ msg |-> "WithdrawalSuccessful", Amount |-> node.Amount - amount ]

\* transaction taking every code other than 1 for a withdrawal.
transaction_ElseWithdraws(list, transactionAccountNumber, amount, code) ==
    IF list = << >>
    THEN [ list |-> list, msg |-> "NoAccountsForTransactions", num |-> 0 ]
    ELSE LET current == FindNumber(list, 1, transactionAccountNumber)
         IN  IF current = 0
             THEN [ list |-> list, msg |-> "TransactionAccountNotFound",
                    num |-> transactionAccountNumber ]
             ELSE IF code = 1
             THEN [ list |-> [ list EXCEPT ![current].Amount = @ + amount ],
                    msg |-> "DepositSuccessful",
                    num |-> transactionAccountNumber ]
             ELSE LET w == Withdrawal(list[current], amount)
                  IN  [ list |-> [ list EXCEPT ![current].Amount = w.Amount ],
                        msg |-> w.msg,
                        num |-> IF w.msg = "WithdrawalSuccessful"
                                    THEN transactionAccountNumber ELSE 0 ]

\* transaction holding a deposit to the minimum balance of the account's type,
\* as it holds a withdrawal.
transaction_DepositKeepsMinimum(list, transactionAccountNumber, amount, code) ==
    IF list = << >>
    THEN [ list |-> list, msg |-> "NoAccountsForTransactions", num |-> 0 ]
    ELSE LET current == FindNumber(list, 1, transactionAccountNumber)
         IN  IF current = 0
             THEN [ list |-> list, msg |-> "TransactionAccountNotFound",
                    num |-> transactionAccountNumber ]
             ELSE IF code \in { 0, 1 }
             THEN LET w == Withdrawal(list[current],
                                      IF code = 1 THEN -amount ELSE amount)
                  IN  [ list |-> [ list EXCEPT ![current].Amount = w.Amount ],
                        msg |-> IF code = 1 /\ w.msg = "WithdrawalSuccessful"
                                    THEN "DepositSuccessful" ELSE w.msg,
                        num |-> IF w.msg = "WithdrawalSuccessful"
                                    THEN transactionAccountNumber ELSE 0 ]
             ELSE [ list |-> list, msg |-> "InvalidTransactionCode",
                    num |-> 0 ]

\* transaction depositing to list->Amount, the head's balance, for
\* current->Amount.
transaction_DepositsToHead(list, transactionAccountNumber, amount, code) ==
    IF list = << >>
    THEN [ list |-> list, msg |-> "NoAccountsForTransactions", num |-> 0 ]
    ELSE LET current == FindNumber(list, 1, transactionAccountNumber)
         IN  IF current = 0
             THEN [ list |-> list, msg |-> "TransactionAccountNotFound",
                    num |-> transactionAccountNumber ]
             ELSE IF code = 1
             THEN [ list |-> [ list EXCEPT ![1].Amount = @ + amount ],
                    msg |-> "DepositSuccessful",
                    num |-> transactionAccountNumber ]
             ELSE IF code = 0
             THEN LET w == Withdrawal(list[current], amount)
                  IN  [ list |-> [ list EXCEPT ![current].Amount = w.Amount ],
                        msg |-> w.msg,
                        num |-> IF w.msg = "WithdrawalSuccessful"
                                    THEN transactionAccountNumber ELSE 0 ]
             ELSE [ list |-> list, msg |-> "InvalidTransactionCode",
                    num |-> 0 ]

\* The result of transaction: the list it returns and the message.
transaction(list, transactionAccountNumber, amount, code) ==
    IF list = << >>
    THEN [ list |-> list, msg |-> "NoAccountsForTransactions", num |-> 0 ]
    ELSE LET current == FindNumber(list, 1, transactionAccountNumber)
         IN  IF current = 0
             THEN [ list |-> list, msg |-> "TransactionAccountNotFound",
                    num |-> transactionAccountNumber ]
             ELSE IF code = 1
             THEN [ list |-> [ list EXCEPT ![current].Amount = @ + amount ],
                    msg |-> "DepositSuccessful",
                    num |-> transactionAccountNumber ]
             ELSE IF code = 0
             THEN LET w == Withdrawal(list[current], amount)
                  IN  [ list |-> [ list EXCEPT ![current].Amount = w.Amount ],
                        msg |-> w.msg,
                        num |-> IF w.msg = "WithdrawalSuccessful"
                                    THEN transactionAccountNumber ELSE 0 ]
             ELSE [ list |-> list, msg |-> "InvalidTransactionCode",
                    num |-> 0 ]

\* The account numbers of a list, node by node.
Numbers(list) == [ k \in 1 .. Len(list) |-> list[k].AccountNumber ]

\* The data swap of sortAccountListByNumber without its exchange of Amount:
\* the numbers, names and types change nodes and the balances stay.
RECURSIVE SortAccountsFrom_AmountStays(_, _)
SortAccountsFrom_AmountStays(list, current) ==
    IF current > Len(list) THEN list
    ELSE LET minNode == MinNode(Numbers(list), current, current + 1)
         IN  SortAccountsFrom_AmountStays(
                 [ list EXCEPT
                     ![current] = [ list[minNode] EXCEPT
                                      !.Amount = list[current].Amount ],
                     ![minNode] = [ list[current] EXCEPT
                                      !.Amount = list[minNode].Amount ] ],
                 current + 1)

RECURSIVE SortAccountsFrom(_, _)
SortAccountsFrom(list, current) ==
    IF current > Len(list) THEN list
    ELSE LET minNode == MinNode(Numbers(list), current, current + 1)
         IN  SortAccountsFrom(IF minNode # current
                                  THEN Swap(list, current, minNode)
                                  ELSE list,
                              current + 1)

\* sortAccountListByNumber swapping the AccountNumber fields only: the names,
\* the types and the amounts stay in their nodes.
RECURSIVE SortNumbersOnlyFrom(_, _)
SortNumbersOnlyFrom(list, current) ==
    IF current > Len(list) THEN list
    ELSE LET minNode == MinNode(Numbers(list), current, current + 1)
         IN  SortNumbersOnlyFrom(
                 [ list EXCEPT
                     ![current].AccountNumber = list[minNode].AccountNumber,
                     ![minNode].AccountNumber = list[current].AccountNumber ],
                 current + 1)

sortAccountListByNumber_NumbersOnly(list) ==
    IF Len(list) <= 1 THEN list
    ELSE SortNumbersOnlyFrom(list, 1)

sortAccountListByNumber(list) ==
    IF Len(list) <= 1 THEN list
    ELSE SortAccountsFrom(list, 1)

\* The rows display prints from node l on: every node, in list order.
RECURSIVE DisplayRows(_, _)
DisplayRows(list, l) ==
    IF l > Len(list) THEN << >>
    ELSE << list[l] >> \o DisplayRows(list, l + 1)

\* What display prints.
display(l) ==
    IF l = << >> THEN Output("NoAccountsToDisplay", 0, << >>, FALSE)
    ELSE Output("Accounts", 0, DisplayRows(l, 1), FALSE)

\* lowBalanceAccounts comparing with <=: a balance of exactly the limit is
\* printed too.
IsLowBalance_AtMost(node) == node.Amount <= LowBalanceLimit

\* Whether lowBalanceAccounts prints the node.
IsLowBalance(node) == node.Amount < LowBalanceLimit

\* The rows lowBalanceAccounts prints from node l on: a row holds the number,
\* the name and the balance of its node, and not the type.
RECURSIVE LowBalanceRows(_, _)
LowBalanceRows(list, l) ==
    IF l > Len(list) THEN << >>
    ELSE (IF IsLowBalance(list[l])
              THEN << [ AccountNumber |-> list[l].AccountNumber,
                        Name |-> list[l].Name, Amount |-> list[l].Amount ] >>
              ELSE << >>)
         \o LowBalanceRows(list, l + 1)

\* What lowBalanceAccounts prints.
lowBalanceAccounts(l) ==
    IF l = << >> THEN Output("NoAccountsToDisplay", 0, << >>, FALSE)
    ELSE LET rows == LowBalanceRows(l, 1)
         IN  Output(IF rows = << >> THEN "NoLowBalanceAccounts"
                                    ELSE "LowBalanceAccounts",
                    0, rows, FALSE)

\* ------------------------------------------------------------ the history

\* Nothing of the recycling of two numbers is under way.
Idle ==
    [ phase |-> "idle", a |-> 0, b |-> 0, counter |-> 0, first |-> 0,
      second |-> 0, final |-> 0 ]

\* The history after a command that printed `o` from a state whose deleted list
\* was `deletedBefore`, the counter being `counter` after it.
\*   one    : account number a was deleted while the deleted list was empty
\*   single : ... and the next account created got the number `first`
\*   two    : a, then b were deleted, and no account was created in between
\*   first  : ... and the next account created got the number `first`
\*   done   : ... and the one created after it got the number `second`
\* counter is the counter at the last of the deletions and final the counter
\* after the last of the creations.  A deletion whose number was not added to
\* the deleted list (addDeletedAccountNum's malloc failed) and a third deletion
\* end the history; the commands that neither delete nor create an account
\* leave it as it is.
Observe(h, deletedBefore, o, counter) ==
    IF o.msg = "Goodbye" THEN Idle
    ELSE IF o.msg = "AccountDeleted" /\ o.err THEN Idle
    ELSE IF o.msg = "AccountDeleted"
    THEN IF deletedBefore = << >>
         THEN [ Idle EXCEPT !.phase = "one", !.a = o.num, !.counter = counter ]
         ELSE IF h.phase = "one"
         THEN [ h EXCEPT !.phase = "two", !.b = o.num, !.counter = counter ]
         ELSE Idle
    ELSE IF o.msg = "AccountCreated"
    THEN IF h.phase = "one"
         THEN [ h EXCEPT !.phase = "single", !.first = o.num,
                         !.final = counter ]
         ELSE IF h.phase = "two"
         THEN [ h EXCEPT !.phase = "first", !.first = o.num,
                         !.final = counter ]
         ELSE IF h.phase = "first"
         THEN [ h EXCEPT !.phase = "done", !.second = o.num,
                         !.final = counter ]
         ELSE Idle
    ELSE h

\* ------------------------------------------------------------ the commands

Init ==
    /\ globalNextAccountNumber = FirstAccountNumber
    /\ accountsHead = << >>
    /\ deletedAccountNumbersHead = << >>
    /\ out = Output("Banner", 0, << >>, FALSE)
    /\ running = TRUE
    /\ recycling = Idle

\* The account type of a type token, or -1 for a token that names none.
ParseAccountType(accountTypeInputStr) ==
    IF accountTypeInputStr = "savings" THEN SAVINGS
    ELSE IF accountTypeInputStr = "current" THEN CURRENT
    ELSE -1

CmdExit ==
    /\ running
    /\ running' = FALSE
    /\ accountsHead' = << >>
    /\ deletedAccountNumbersHead' = << >>
    /\ out' = Output("Goodbye", 0, << >>, FALSE)
    /\ UNCHANGED globalNextAccountNumber

CmdCreate(accountTypeInputStr, nameInput, amountInput, nodeOk, nameOk) ==
    LET accType == ParseAccountType(accountTypeInputStr) IN
    /\ running
    /\ IF accType = -1
       THEN /\ out' = Output("InvalidAccountType", 0, << >>, FALSE)
            /\ UNCHANGED << globalNextAccountNumber, accountsHead,
                            deletedAccountNumbersHead >>
       ELSE IF checkDuplicateAccount(accountsHead, nameInput, accType) # 0
       THEN /\ out' = Output("DuplicateAccount", 0, << >>, FALSE)
            /\ UNCHANGED << globalNextAccountNumber, accountsHead,
                            deletedAccountNumbersHead >>
       ELSE LET sorted == sortDeletedAccountNumList(deletedAccountNumbersHead)
                r == createAccount(sorted, accountsHead, accType, nameInput,
                                   amountInput, globalNextAccountNumber,
                                   nodeOk, nameOk)
            IN  /\ accountsHead' = r.list
                /\ deletedAccountNumbersHead' = r.deleted
                /\ globalNextAccountNumber' = r.counter
                /\ out' = r.out
    /\ UNCHANGED running

CmdDelete(accountTypeInputStr, nameInput, nodeOk) ==
    LET accType == ParseAccountType(accountTypeInputStr) IN
    /\ running
    /\ IF accType = -1
       THEN /\ out' = Output("InvalidAccountType", 0, << >>, FALSE)
            /\ UNCHANGED << accountsHead, deletedAccountNumbersHead >>
       ELSE LET r == deleteAccount(accountsHead, accType, nameInput)
                deletedNum == r.deletedAccountNumber
            IN  /\ accountsHead' = r.list
                /\ deletedAccountNumbersHead' =
                       IF deletedNum # NoneDeleted
                       THEN addDeletedAccountNum(deletedAccountNumbersHead,
                                                 deletedNum, nodeOk)
                       ELSE deletedAccountNumbersHead
                /\ out' = Output(r.msg,
                                 IF deletedNum # NoneDeleted THEN deletedNum
                                                             ELSE 0,
                                 << >>,
                                 deletedNum # NoneDeleted /\ ~nodeOk)
    /\ UNCHANGED << globalNextAccountNumber, running >>

CmdDisplay ==
    /\ running
    /\ accountsHead' = sortAccountListByNumber(accountsHead)
    /\ out' = display(accountsHead')
    /\ UNCHANGED << globalNextAccountNumber, deletedAccountNumbersHead,
                    running >>

CmdLowBalance ==
    /\ running
    /\ accountsHead' = sortAccountListByNumber(accountsHead)
    /\ out' = lowBalanceAccounts(accountsHead')
    /\ UNCHANGED << globalNextAccountNumber, deletedAccountNumbersHead,
                    running >>

CmdTransaction(targetAccountNumberInput, amountInput, transactionCodeInput) ==
    LET r == transaction(accountsHead, targetAccountNumberInput, amountInput,
                         transactionCodeInput)
    IN  /\ running
        /\ accountsHead' = r.list
        /\ out' = Output(r.msg, r.num, << >>, FALSE)
        /\ UNCHANGED << globalNextAccountNumber, deletedAccountNumbersHead,
                        running >>

CmdInvalid ==
    /\ running
    /\ out' = Output("InvalidCommand", 0, << >>, FALSE)
    /\ UNCHANGED << globalNextAccountNumber, accountsHead,
                    deletedAccountNumbersHead, running >>

\* The commands the bounds leave out: those that mint more than maxFresh fresh
\* numbers or take a balance out of range.
WithinBounds(maxFresh, maxBalance) ==
    /\ globalNextAccountNumber' <= FirstAccountNumber + maxFresh
    /\ \A k \in 1 .. Len(accountsHead') :
           InRange(accountsHead'[k].Amount, maxBalance)

\* A command under Spec: within the bounds, and the history takes note of it.
Step(Cmd) ==
    /\ Cmd
    /\ WithinBounds(MaxFresh, MaxBalance)
    /\ recycling' = Observe(recycling, deletedAccountNumbersHead, out',
                            globalNextAccountNumber')

\* One iteration of main's loop.
Next ==
    \/ Step(CmdExit)
    \/ \E t \in TypeInputs, n \in NameInputs, a \in AmountInputs,
          ok \in CreateAllocResults :
           Step(CmdCreate(t, n, a, ok[1], ok[2]))
    \/ \E t \in TypeInputs, n \in NameInputs, nodeOk \in AllocResults :
           Step(CmdDelete(t, n, nodeOk))
    \/ Step(CmdDisplay)
    \/ Step(CmdLowBalance)
    \/ \E num \in NumberInputs(MaxFresh), a \in AmountInputs,
          c \in CodeInputs :
           Step(CmdTransaction(num, a, c))
    \/ Step(CmdInvalid)

Spec == Init /\ [][Next]_vars

\* A command under SpecLedger: within its bounds, and no history is kept.
LedgerStep(Cmd) ==
    /\ Cmd
    /\ WithinBounds(MaxLedgerFresh, MaxLedgerBalance)
    /\ UNCHANGED recycling

\* The same loop with finer amounts and fewer accounts.
NextLedger ==
    \/ LedgerStep(CmdExit)
    \/ \E t \in TypeInputs, n \in NameInputs, a \in LedgerAmountInputs,
          ok \in CreateAllocResults :
           LedgerStep(CmdCreate(t, n, a, ok[1], ok[2]))
    \/ \E t \in TypeInputs, n \in NameInputs, nodeOk \in AllocResults :
           LedgerStep(CmdDelete(t, n, nodeOk))
    \/ LedgerStep(CmdDisplay)
    \/ LedgerStep(CmdLowBalance)
    \/ \E num \in NumberInputs(MaxLedgerFresh), a \in LedgerAmountInputs,
          c \in CodeInputs :
           LedgerStep(CmdTransaction(num, a, c))
    \/ LedgerStep(CmdInvalid)

SpecLedger == Init /\ [][NextLedger]_vars

\* The loop of Spec in a run where malloc and strdup never return NULL.
NextNoFailure ==
    \/ Step(CmdExit)
    \/ \E t \in TypeInputs, n \in NameInputs, a \in AmountInputs :
           Step(CmdCreate(t, n, a, TRUE, TRUE))
    \/ \E t \in TypeInputs, n \in NameInputs :
           Step(CmdDelete(t, n, TRUE))
    \/ Step(CmdDisplay)
    \/ Step(CmdLowBalance)
    \/ \E num \in NumberInputs(MaxFresh), a \in AmountInputs,
          c \in CodeInputs :
           Step(CmdTransaction(num, a, c))
    \/ Step(CmdInvalid)

SpecNoFailure == Init /\ [][NextNoFailure]_vars

\* A command under SpecLow: within Spec's bounds, and no history is kept.
LowStep(Cmd) ==
    /\ Cmd
    /\ WithinBounds(MaxFresh, MaxBalance)
    /\ UNCHANGED recycling

\* The same loop with accounts opened at the low-balance limit and just below.
NextLow ==
    \/ LowStep(CmdExit)
    \/ \E t \in TypeInputs, n \in NameInputs, a \in LowAmountInputs,
          ok \in CreateAllocResults :
           LowStep(CmdCreate(t, n, a, ok[1], ok[2]))
    \/ \E t \in TypeInputs, n \in NameInputs, nodeOk \in AllocResults :
           LowStep(CmdDelete(t, n, nodeOk))
    \/ LowStep(CmdDisplay)
    \/ LowStep(CmdLowBalance)
    \/ \E num \in NumberInputs(MaxFresh), a \in AmountInputs,
          c \in CodeInputs :
           LowStep(CmdTransaction(num, a, c))
    \/ LowStep(CmdInvalid)

SpecLow == Init /\ [][NextLow]_vars

\* ------------------------------------------------------------- the claims

\* The account type a valid type token names.
TypeOf(t) == IF t = "savings" THEN SAVINGS ELSE CURRENT
ValidType(t) == t \in { "savings", "current" }
\* A live account has exactly this name and this type.
Live(n, ty) ==
    \E k \in 1 .. Len(accountsHead) :
        accountsHead[k].Name = n /\ accountsHead[k].accountType = ty
LiveNumbers == { accountsHead[k].AccountNumber : k \in 1 .. Len(accountsHead) }
\* How often x occurs in the sequence.
Count(seq, x) == Cardinality({ k \in 1 .. Len(seq) : seq[k] = x })
\* The elements of a sequence, and the least of a non-empty sequence of numbers.
Elements(seq) == { seq[k] : k \in 1 .. Len(seq) }
Least(seq) == CHOOSE x \in Elements(seq) : \A y \in Elements(seq) : x <= y
\* seq2 is seq1 with one occurrence of x more.
OneMore(seq1, seq2, x) ==
    /\ Len(seq2) = Len(seq1) + 1
    /\ \A y \in Elements(seq1) \cup Elements(seq2) \cup { x } :
           Count(seq2, y) = Count(seq1, y) + (IF y = x THEN 1 ELSE 0)
\* The account list is the one before with this node appended.
Appended(node) == accountsHead' = Append(accountsHead, node)

\* C1: an accepted CREATE (valid type, no live account of that name and type,
\* the allocations succeed) takes the least number of the deleted list when
\* there is one, removing one entry of it and leaving the counter alone, and
\* otherwise takes the counter's value and adds one to the counter; the counter
\* changes in no step that starts with a non-empty deleted list.
C1_Step ==
    /\ \A t \in TypeInputs, n \in NameInputs, a \in AmountInputs :
           ( /\ ValidType(t)
             /\ ~Live(n, TypeOf(t))
             /\ CmdCreate(t, n, a, TRUE, TRUE) )
           => IF deletedAccountNumbersHead # << >>
              THEN LET least == Least(deletedAccountNumbersHead)
                   IN  /\ Appended(AccountNode(least, n, TypeOf(t), a))
                       /\ OneMore(deletedAccountNumbersHead',
                                  deletedAccountNumbersHead, least)
                       /\ globalNextAccountNumber' = globalNextAccountNumber
              ELSE /\ Appended(AccountNode(globalNextAccountNumber, n,
                                           TypeOf(t), a))
                   /\ deletedAccountNumbersHead' = << >>
                   /\ globalNextAccountNumber' = globalNextAccountNumber + 1
    /\ globalNextAccountNumber' # globalNextAccountNumber
           => deletedAccountNumbersHead = << >>

\* C1, of every step: an accepted CREATE recycles the least deleted number or,
\* there being none, mints the counter's value.
C1_CreateRecyclesLeastElseMints == [][C1_Step]_vars

\* C1's case: Y, then X < Y were deleted, so that the deleted list read Y, X,
\* and an account has been created since.
C1_Witness ==
    /\ recycling.phase = "first"
    /\ recycling.a > recycling.b
    /\ out.msg = "AccountCreated"

\* C2: when two accounts were deleted from an empty deleted list, in either
\* order, the next account created gets the lesser of the two numbers and the
\* one created after it the greater, whatever commands that neither create nor
\* delete an account come in between, and the counter is, after each of the two
\* creations, what it was at the second deletion.
C2_TwoDeletedReusedLeastFirst ==
    recycling.phase \in { "first", "done" } =>
        LET X == IF recycling.a < recycling.b THEN recycling.a ELSE recycling.b
            Y == IF recycling.a < recycling.b THEN recycling.b ELSE recycling.a
        IN  /\ recycling.first = X
            /\ recycling.final = recycling.counter
            /\ globalNextAccountNumber = recycling.counter
            /\ recycling.phase = "done" => recycling.second = Y

\* C2's case: Y was deleted before X < Y and both numbers have been given to
\* new accounts.
C2_Witness ==
    /\ recycling.phase = "done"
    /\ recycling.a > recycling.b

\* C3: a DELETE that finds the account of the name and type, and whose
\* allocation succeeds, removes that account alone and adds its number, and
\* nothing else, to the deleted list; when the deleted list was empty before
\* it, the next account created gets that number and the counter stays as it
\* was.
C3_Step ==
    \A t \in TypeInputs, n \in NameInputs :
        ( /\ ValidType(t)
          /\ Live(n, TypeOf(t))
          /\ CmdDelete(t, n, TRUE) )
        => \E i \in 1 .. Len(accountsHead) :
               /\ accountsHead[i].Name = n
               /\ accountsHead[i].accountType = TypeOf(t)
               /\ Len(accountsHead') = Len(accountsHead) - 1
               /\ \A k \in 1 .. Len(accountsHead') :
                      accountsHead'[k] = accountsHead[IF k < i THEN k ELSE k + 1]
               /\ OneMore(deletedAccountNumbersHead, deletedAccountNumbersHead',
                          accountsHead[i].AccountNumber)
               /\ out'.msg = "AccountDeleted"
               /\ out'.num = accountsHead[i].AccountNumber

C3_Reused ==
    recycling.phase = "single" =>
        /\ recycling.first = recycling.a
        /\ recycling.first < recycling.counter
        /\ recycling.final = recycling.counter

\* C3, of every step and every state: a DELETE moves the account's number to
\* the deleted list, and the next account created gets it.
C3_DeleteReturnsNumberForNextCreate == [][C3_Step]_vars /\ []C3_Reused

\* C3's case: 100 and 101 were minted, 100 was deleted and an account has been
\* created since.
C3_Witness ==
    /\ recycling.phase = "single"
    /\ recycling.a = FirstAccountNumber
    /\ globalNextAccountNumber = FirstAccountNumber + 2
    /\ Len(accountsHead) = 2

\* C4: no two live accounts have the same account number, and every live
\* account number is positive.
C4_NumbersUniqueAndPositive ==
    /\ \A i, j \in 1 .. Len(accountsHead) :
           i # j => accountsHead[i].AccountNumber # accountsHead[j].AccountNumber
    /\ \A i \in 1 .. Len(accountsHead) : accountsHead[i].AccountNumber > 0

\* C4's case: two accounts are live and the last one created got a recycled
\* number, one below the last number minted.
C4_Witness ==
    /\ Len(accountsHead) >= 2
    /\ out.msg = "AccountCreated"
    /\ out.num < globalNextAccountNumber - 1

\* C5: no two live accounts have the same name and the same type; and a CREATE
\* of a valid type is turned down as a duplicate only when a live account has
\* exactly its name, letter case included, and its type, so that a name may be
\* live once per type and two names that differ in case may be live together.
C5_Unique ==
    \A i, j \in 1 .. Len(accountsHead) :
        ( /\ accountsHead[i].Name = accountsHead[j].Name
          /\ accountsHead[i].accountType = accountsHead[j].accountType )
        => i = j

C5_Step ==
    \A t \in TypeInputs, n \in NameInputs, a \in AmountInputs,
       ok \in CreateAllocResults :
        ( /\ ValidType(t)
          /\ CmdCreate(t, n, a, ok[1], ok[2]) )
        => (out'.msg = "DuplicateAccount" <=> Live(n, TypeOf(t)))

\* C5, of every state and every step: name and type are unique among the live
\* accounts, and only an exact match makes a CREATE a duplicate.
C5_NameAndTypeUnique == []C5_Unique /\ [][C5_Step]_vars

\* C5's case: "A" and "a" are live with the same type.
C5_Witness ==
    \E i, j \in 1 .. Len(accountsHead) :
        /\ accountsHead[i].Name = << 65 >>
        /\ accountsHead[j].Name = << 97 >>
        /\ accountsHead[i].accountType = accountsHead[j].accountType

\* C6: a CREATE whose name and type are those of a live account is turned down
\* and leaves the live accounts, the deleted list and the counter as they were.
C6_Step ==
    \A t \in TypeInputs, n \in NameInputs, a \in AmountInputs,
       ok \in CreateAllocResults :
        ( /\ ValidType(t)
          /\ Live(n, TypeOf(t))
          /\ CmdCreate(t, n, a, ok[1], ok[2]) )
        => /\ out'.msg = "DuplicateAccount"
           /\ accountsHead' = accountsHead
           /\ deletedAccountNumbersHead' = deletedAccountNumbersHead
           /\ globalNextAccountNumber' = globalNextAccountNumber

\* C6, of every step: a duplicate CREATE is turned down and changes nothing.
C6_DuplicateCreateChangesNothing == [][C6_Step]_vars

\* C6's case: a duplicate was turned down while the deleted list held a number.
C6_Witness ==
    /\ out.msg = "DuplicateAccount"
    /\ deletedAccountNumbersHead # << >>
    /\ accountsHead # << >>

\* The transaction with code `code` on account number num, for amount a, meets
\* node k of the list, an account of type ty.
Meets(num, a, code, k, ty) ==
    /\ k \in 1 .. Len(accountsHead)
    /\ accountsHead[k].AccountNumber = num
    /\ accountsHead[k].accountType = ty
    /\ CmdTransaction(num, a, code)

\* The account list is the one before but for the balance of node k.
OnlyBalance(k, balance) ==
    accountsHead' = [ accountsHead EXCEPT ![k].Amount = balance ]

\* C7: a withdrawal of a from a savings account with balance b fails and leaves
\* the balance when b - a < 100, and otherwise, at b - a = 100 too, succeeds
\* and leaves the balance b - a.
C7_Step ==
    \A num \in NumberInputs(MaxLedgerFresh), a \in LedgerAmountInputs,
       k \in 1 .. Len(accountsHead) :
        Meets(num, a, 0, k, SAVINGS)
        => LET b == accountsHead[k].Amount
           IN  IF b - a < 100
               THEN /\ out'.msg = "InsufficientSavings"
                    /\ accountsHead' = accountsHead
               ELSE /\ out'.msg = "WithdrawalSuccessful"
                    /\ OnlyBalance(k, b - a)

\* C7, of every step: a savings withdrawal succeeds exactly when it leaves 100
\* or more.
C7_SavingsWithdrawalKeeps100 == [][C7_Step]_vars

\* C7's case: a withdrawal has left a savings account with exactly 100.
C7_Witness ==
    /\ out.msg = "WithdrawalSuccessful"
    /\ \E k \in 1 .. Len(accountsHead) :
           /\ accountsHead[k].AccountNumber = out.num
           /\ accountsHead[k].accountType = SAVINGS
           /\ accountsHead[k].Amount = 100

\* C8: a withdrawal of a from a current account with balance b fails and leaves
\* the balance when b - a < 0, and otherwise, at b - a = 0 and at every
\* b - a below 100 too, succeeds and leaves the balance b - a.
C8_Step ==
    \A num \in NumberInputs(MaxLedgerFresh), a \in LedgerAmountInputs,
       k \in 1 .. Len(accountsHead) :
        Meets(num, a, 0, k, CURRENT)
        => LET b == accountsHead[k].Amount
           IN  IF b - a < 0
               THEN /\ out'.msg = "InsufficientCurrent"
                    /\ accountsHead' = accountsHead
               ELSE /\ out'.msg = "WithdrawalSuccessful"
                    /\ OnlyBalance(k, b - a)

\* C8, of every step: a current withdrawal succeeds exactly when it leaves 0 or
\* more.
C8_CurrentWithdrawalKeeps0 == [][C8_Step]_vars

\* C8's case: a withdrawal has left a current account with exactly 0.
C8_Witness ==
    /\ out.msg = "WithdrawalSuccessful"
    /\ \E k \in 1 .. Len(accountsHead) :
           /\ accountsHead[k].AccountNumber = out.num
           /\ accountsHead[k].accountType = CURRENT
           /\ accountsHead[k].Amount = 0

\* C9: a TRANSACTION on a number no live account has, whatever its amount and
\* code, reports that there is no such account ("No Accounts ..." when the
\* list is empty) and leaves the live accounts, the deleted list and the
\* counter as they were.
C9_Step ==
    \A num \in NumberInputs(MaxFresh), a \in AmountInputs, c \in CodeInputs :
        ( /\ num \notin LiveNumbers
          /\ CmdTransaction(num, a, c) )
        => /\ out'.msg = IF accountsHead = << >>
                             THEN "NoAccountsForTransactions"
                             ELSE "TransactionAccountNotFound"
           /\ accountsHead' = accountsHead
           /\ deletedAccountNumbersHead' = deletedAccountNumbersHead
           /\ globalNextAccountNumber' = globalNextAccountNumber

\* C9, of every step: a TRANSACTION on a number that is not live finds no
\* account and changes nothing.
C9_UnknownNumberChangesNothing == [][C9_Step]_vars

\* C9's case: a transaction named a number of the deleted list while another
\* account was live.
C9_Witness ==
    /\ out.msg = "TransactionAccountNotFound"
    /\ out.num \in Elements(deletedAccountNumbersHead)
    /\ accountsHead # << >>

\* C10: what DISPLAY lists is strictly ascending by account number and holds
\* the accounts that were live when it was asked, each once and as it was.
C10_Step ==
    CmdDisplay
    => /\ \A k \in 1 .. (Len(out'.rows) - 1) :
              out'.rows[k].AccountNumber < out'.rows[k + 1].AccountNumber
       /\ Len(out'.rows) = Len(accountsHead)
       /\ Elements(out'.rows) = Elements(accountsHead)

\* C10, of every step: DISPLAY lists the live accounts in strictly ascending
\* order of their numbers.
C10_DisplaySortedAndComplete == [][C10_Step]_vars

\* C10's case: 100 was deleted and given to a new account while 101 was live,
\* so that the list read 101, 100, and DISPLAY has listed the two accounts.
C10_Witness ==
    /\ out.msg = "Accounts"
    /\ Len(out.rows) = 2
    /\ recycling.phase = "single"
    /\ recycling.a = FirstAccountNumber

\* The two sequences hold the same numbers, each as often.
SameNumbers(seq1, seq2) ==
    /\ Len(seq1) = Len(seq2)
    /\ \A y \in Elements(seq1) \cup Elements(seq2) :
           Count(seq1, y) = Count(seq2, y)

\* C11: a CREATE or a DELETE during which an allocation fails leaves the live
\* accounts and the counter as they were and the deleted list with the numbers
\* it had, and no DELETE takes an account off the list of live accounts without
\* its number being on the deleted list afterwards.
C11_Step ==
    /\ \A t \in TypeInputs, n \in NameInputs, a \in AmountInputs,
          ok \in CreateAllocResults \ { << TRUE, TRUE >> } :
           ( /\ ValidType(t)
             /\ ~Live(n, TypeOf(t))
             /\ CmdCreate(t, n, a, ok[1], ok[2]) )
           => /\ accountsHead' = accountsHead
              /\ SameNumbers(deletedAccountNumbersHead',
                             deletedAccountNumbersHead)
              /\ globalNextAccountNumber' = globalNextAccountNumber
    /\ \A t \in TypeInputs, n \in NameInputs :
           ( /\ ValidType(t)
             /\ Live(n, TypeOf(t))
             /\ CmdDelete(t, n, FALSE) )
           => /\ accountsHead' = accountsHead
              /\ SameNumbers(deletedAccountNumbersHead',
                             deletedAccountNumbersHead)
              /\ globalNextAccountNumber' = globalNextAccountNumber
    /\ \A t \in TypeInputs, n \in NameInputs, nodeOk \in AllocResults :
           CmdDelete(t, n, nodeOk)
           => \A k \in 1 .. Len(accountsHead) :
                  accountsHead[k] \notin Elements(accountsHead')
                  => accountsHead[k].AccountNumber
                         \in Elements(deletedAccountNumbersHead')

\* C11, of every step: a failed allocation aborts the command and changes
\* nothing, and a deleted account's number is never lost.
C11_FailedAllocationChangesNothing == [][C11_Step]_vars

\* The codes that are neither the deposit's nor the withdrawal's.
OtherCodes == CodeInputs \ { 0, 1 }

\* The state but for the output is what it was.
SameRegistry ==
    /\ accountsHead' = accountsHead
    /\ deletedAccountNumbersHead' = deletedAccountNumbersHead
    /\ globalNextAccountNumber' = globalNextAccountNumber

\* C12 as it was claimed: a TRANSACTION whose code is neither 0 nor 1 reports
\* an invalid code, whether or not its account number is live, and changes
\* nothing.
C12_Claimed_Step ==
    \A num \in NumberInputs(MaxFresh), a \in AmountInputs, c \in OtherCodes :
        CmdTransaction(num, a, c)
        => /\ out'.msg = "InvalidTransactionCode"
           /\ SameRegistry

C12_InvalidCodeAlwaysReported == [][C12_Claimed_Step]_vars

\* C12: a TRANSACTION whose code is neither 0 nor 1 changes nothing; it reports
\* an invalid code when its account number is live, and that there is no such
\* account ("No Accounts ..." when the list is empty) when it is not.
C12_Step ==
    \A num \in NumberInputs(MaxFresh), a \in AmountInputs, c \in OtherCodes :
        CmdTransaction(num, a, c)
        => /\ out'.msg = IF num \in LiveNumbers
                             THEN "InvalidTransactionCode"
                         ELSE IF accountsHead = << >>
                             THEN "NoAccountsForTransactions"
                             ELSE "TransactionAccountNotFound"
           /\ SameRegistry

\* C12, of every step: an invalid code changes nothing and is reported for a
\* live account number only.
C12_InvalidCodeChangesNothing == [][C12_Step]_vars

\* C12's case: an invalid code was reported for a live current account that
\* holds 100, which a withdrawal of the amount would have taken.
C12_Witness ==
    /\ out.msg = "InvalidTransactionCode"
    /\ \E k \in 1 .. Len(accountsHead) :
           /\ accountsHead[k].accountType = CURRENT
           /\ accountsHead[k].Amount = 100

\* C13: the counter is 100 at the start; every command leaves it as it was or
\* adds one to it; and it grows only in an accepted CREATE (valid type, no live
\* account of the name and type, allocations succeeding) that finds the deleted
\* list empty, so that DELETE, TRANSACTION, DISPLAY, LOWBALANCE, EXIT and every
\* command that is turned down leave it as it was.
C13_Step ==
    /\ globalNextAccountNumber' \in { globalNextAccountNumber,
                                      globalNextAccountNumber + 1 }
    /\ globalNextAccountNumber' # globalNextAccountNumber
           => /\ deletedAccountNumbersHead = << >>
              /\ out'.msg = "AccountCreated"
              /\ \E t \in TypeInputs, n \in NameInputs, a \in AmountInputs :
                     /\ ValidType(t)
                     /\ ~Live(n, TypeOf(t))
                     /\ CmdCreate(t, n, a, TRUE, TRUE)
    /\ ( \/ CmdExit
         \/ CmdDisplay
         \/ CmdLowBalance
         \/ CmdInvalid
         \/ out'.msg \in { "AccountDeleted", "DeleteNotFound",
                           "NoAccountsToDelete", "InvalidAccountType",
                           "DuplicateAccount", "DepositSuccessful",
                           "WithdrawalSuccessful", "InsufficientSavings",
                           "InsufficientCurrent", "InvalidTransactionCode",
                           "TransactionAccountNotFound",
                           "NoAccountsForTransactions" }
         \/ out'.err )
           => globalNextAccountNumber' = globalNextAccountNumber

\* C13, of the first state and every step: the counter starts at 100 and only
\* an accepted CREATE with an empty deleted list moves it, by one.
C13_CounterOnlyGrowsByMinting ==
    /\ globalNextAccountNumber = FirstAccountNumber
    /\ [][C13_Step]_vars

\* C13's case: the account that got the last number minted has been deleted,
\* and the counter still stands one above that number.
C13_Witness ==
    /\ out.msg = "AccountDeleted"
    /\ out.num = globalNextAccountNumber - 1
    /\ globalNextAccountNumber > FirstAccountNumber + 1

\* The row LOWBALANCE prints for an account: its number, name and balance.
LowRow(node) ==
    [ AccountNumber |-> node.AccountNumber, Name |-> node.Name,
      Amount |-> node.Amount ]

\* C14: what LOWBALANCE lists is strictly ascending by account number and holds
\* a row for each live account whose balance is below 100, and for no other:
\* an account at exactly 100 is left out, one at 99 is listed, and the type of
\* an account has no part in it.
C14_Step ==
    CmdLowBalance
    => LET low == { k \in 1 .. Len(accountsHead) :
                        accountsHead[k].Amount < 100 }
       IN  /\ Len(out'.rows) = Cardinality(low)
           /\ Elements(out'.rows) = { LowRow(accountsHead[k]) : k \in low }
           /\ \A k \in 1 .. (Len(out'.rows) - 1) :
                  out'.rows[k].AccountNumber < out'.rows[k + 1].AccountNumber
           /\ out'.msg = IF accountsHead = << >> THEN "NoAccountsToDisplay"
                         ELSE IF low = {} THEN "NoLowBalanceAccounts"
                         ELSE "LowBalanceAccounts"

\* C14, of every step: LOWBALANCE lists the accounts below 100, and only
\* those, in ascending order of their numbers.
C14_LowBalanceListsBelow100 == [][C14_Step]_vars

\* C14's case: a savings account at exactly 100 and a current account at 99
\* are live, or the other way round, and LOWBALANCE has listed the one at 99
\* alone.
C14_Witness ==
    /\ out.msg = "LowBalanceAccounts"
    /\ Len(out.rows) = 1
    /\ out.rows[1].Amount = 99
    /\ \E i, j \in 1 .. Len(accountsHead) :
           /\ accountsHead[i].Amount = 100
           /\ accountsHead[j].Amount = 99
           /\ accountsHead[i].accountType # accountsHead[j].accountType

\* C15: a DELETE of a valid type whose name and type are those of no live
\* account -- the list being empty, or the name being live with the other type
\* only, included -- reports that there is no such account ("No accounts to
\* delete." when the list is empty) and leaves the live accounts, the deleted
\* list and the counter as they were.
C15_Step ==
    \A t \in TypeInputs, n \in NameInputs, nodeOk \in AllocResults :
        ( /\ ValidType(t)
          /\ ~Live(n, TypeOf(t))
          /\ CmdDelete(t, n, nodeOk) )
        => /\ out'.msg = IF accountsHead = << >> THEN "NoAccountsToDelete"
                                                 ELSE "DeleteNotFound"
           /\ ~out'.err
           /\ SameRegistry

\* C15, of every step: a DELETE that matches no live account finds none and
\* changes nothing.
C15_UnmatchedDeleteChangesNothing == [][C15_Step]_vars

\* C15's case: a DELETE found no account while one account was live and the
\* deleted list held a number.
C15_Witness ==
    /\ out.msg = "DeleteNotFound"
    /\ Len(accountsHead) = 1
    /\ deletedAccountNumbersHead # << >>

\* C16: a deposit of a to a live account with balance b, of either type and
\* for every a, zero and negative included, succeeds and leaves the balance
\* b + a and everything else as it was; no minimum is looked at, so that a
\* negative deposit takes a savings account below 100 and a current account
\* below 0.
C16_Step ==
    \A num \in NumberInputs(MaxLedgerFresh), a \in LedgerAmountInputs,
       k \in 1 .. Len(accountsHead), ty \in { SAVINGS, CURRENT } :
        Meets(num, a, 1, k, ty)
        => /\ out'.msg = "DepositSuccessful"
           /\ OnlyBalance(k, accountsHead[k].Amount + a)
           /\ deletedAccountNumbersHead' = deletedAccountNumbersHead
           /\ globalNextAccountNumber' = globalNextAccountNumber

\* C16, of every step: a deposit always succeeds and adds its amount.
C16_DepositAlwaysSucceeds == [][C16_Step]_vars

\* C16's case: a deposit has succeeded on a current account whose balance is
\* below 0.
C16_Witness ==
    /\ out.msg = "DepositSuccessful"
    /\ \E k \in 1 .. Len(accountsHead) :
           /\ accountsHead[k].AccountNumber = out.num
           /\ accountsHead[k].accountType = CURRENT
           /\ accountsHead[k].Amount < 0

\* C17: as long as the program runs and no allocation has failed, the deleted
\* list holds no number twice, no number of it is live, and the live numbers
\* together with those of the deleted list are the numbers minted so far, 100
\* up to the counter less one.
C17_LiveAndDeletedPartitionMinted ==
    running =>
        /\ \A i, j \in 1 .. Len(deletedAccountNumbersHead) :
               deletedAccountNumbersHead[i] = deletedAccountNumbersHead[j]
               => i = j
        /\ Elements(deletedAccountNumbersHead) \cap LiveNumbers = {}
        /\ Elements(deletedAccountNumbersHead) \cup LiveNumbers
               = FirstAccountNumber .. (globalNextAccountNumber - 1)

\* C17's case: two numbers were minted and deleted, the lesser one has been
\* given to a new account and the greater one is on the deleted list.
C17_Witness ==
    /\ running
    /\ globalNextAccountNumber = FirstAccountNumber + 2
    /\ LiveNumbers = { FirstAccountNumber }
    /\ deletedAccountNumbersHead = << FirstAccountNumber + 1 >>
    /\ recycling.phase = "first"

\* C18: DISPLAY and LOWBALANCE change at most the order in which the accounts
\* are stored: the accounts after the command are, as records (number, name,
\* type, balance), those before it, as many, and the deleted list and the
\* counter are as they were.
C18_Step ==
    (CmdDisplay \/ CmdLowBalance)
    => /\ Len(accountsHead') = Len(accountsHead)
       /\ Elements(accountsHead') = Elements(accountsHead)
       /\ deletedAccountNumbersHead' = deletedAccountNumbersHead
       /\ globalNextAccountNumber' = globalNextAccountNumber

\* C18, of every step: the two listing commands reorder the accounts and
\* change nothing else.
C18_ListingOnlyReorders == [][C18_Step]_vars

\* C18's case: 100 was deleted and given to a new account while 101 was live,
\* so that the list read 101, 100; LOWBALANCE has listed an account, the two
\* accounts have different balances and a number is on the deleted list.
C18_Witness ==
    /\ out.msg = "LowBalanceAccounts"
    /\ Len(accountsHead) = 2
    /\ accountsHead[1].Amount # accountsHead[2].Amount
    /\ accountsHead[1].AccountNumber = FirstAccountNumber
    /\ recycling.phase = "single"
    /\ recycling.a = FirstAccountNumber

\* C19: a TRANSACTION changes at most the balance of the account whose number
\* it names: that account keeps its number, name and type, every other account
\* is as it was, the accounts are as many and in the order they were, and the
\* deleted list and the counter are as they were.
C19_Step ==
    \A num \in NumberInputs(MaxFresh), a \in AmountInputs, c \in CodeInputs :
        CmdTransaction(num, a, c)
        => /\ Len(accountsHead') = Len(accountsHead)
           /\ \A k \in 1 .. Len(accountsHead) :
                  IF accountsHead[k].AccountNumber = num
                  THEN accountsHead'[k] =
                           [ accountsHead[k] EXCEPT
                               !.Amount = accountsHead'[k].Amount ]
                  ELSE accountsHead'[k] = accountsHead[k]
           /\ deletedAccountNumbersHead' = deletedAccountNumbersHead
           /\ globalNextAccountNumber' = globalNextAccountNumber

\* C19, of every step: a TRANSACTION touches one balance and nothing else.
C19_TransactionTouchesOneBalance == [][C19_Step]_vars

\* C19's case: a deposit has succeeded on the second of two accounts, which
\* holds 100, while the first holds 0.
C19_Witness ==
    /\ out.msg = "DepositSuccessful"
    /\ Len(accountsHead) = 2
    /\ accountsHead[2].AccountNumber = out.num
    /\ accountsHead[2].Amount = 100
    /\ accountsHead[1].Amount = 0

====
